---- MODULE Spec2Model ----
(***************************************************************************)
(* A model of the ORB feature tool: the ORBModule class of orb_module.js   *)
(* (descriptor codec, keypoint normalisation, matching) and the event      *)
(* handlers of main.js that drive it.                                      *)
(***************************************************************************)
EXTENDS Integers, Sequences, FiniteSets, TLC

(***************************************************************************)
(* Bounds of the model.                                                    *)
(***************************************************************************)
\* longest byte sequence whose contents are enumerated exhaustively
MaxLen == 3
\* how far beyond the chunk size the long codec inputs reach
MaxOver == 2
\* largest image width of the normaliser's inputs
MaxW == 22
\* largest image height of the normaliser's inputs
MaxH == 3
\* most descriptor rows of a source document
MaxSrcRows == 4
\* most descriptor rows detected on a target image
MaxTgtRows == 2
\* the calls made in sequence on one ORBModule instance
MaxCalls == 2
\* the files chosen in fileA in one run of overlapping loads
MaxLoads == 2
\* the extractFrame calls of one run of the frame extractor
MaxFrameCalls == 3
\* width and height of the images handed to the module on its own
ImageW == 8
ImageH == 4
\* width and height of the images loaded into the page
PageW == 4
PageH == 4

(***************************************************************************)
(* Small helpers.                                                          *)
(***************************************************************************)
Min(a, b) == IF a < b THEN a ELSE b

Max(a, b) == IF a > b THEN a ELSE b

\* all sequences over S of length 0..n
SeqsUpTo(S, n) == UNION {[1..k -> S] : k \in 0..n}

(***************************************************************************)
(* JS Numbers: IEEE-754 binary64, round to nearest, ties to even.  A       *)
(* positive double is [h, m, l, e]: its 53 significand bits in three       *)
(* limbs (17 + 18 + 18 bits, h holding the leading 1), e the weight of     *)
(* the last bit, so that the value is (h * Limb^2 + m * Limb + l) * 2^e;   *)
(* zero is FZero.  Image coordinates and sizes are integers below 2^13,    *)
(* far from overflow and from subnormals.                                  *)
(***************************************************************************)
\* significand bits of a binary64
P == 53

Limb == 2^18

FZero == [h |-> 0, m |-> 0, l |-> 0, e |-> 0]

\* bit i (1 = most significant) of a sequence of 18-bit limbs
BitAt(D, i) ==
  IF i < 1 \/ i > 18 * Len(D) THEN 0
  ELSE (D[((i - 1) \div 18) + 1] \div 2^(17 - ((i - 1) % 18))) % 2

\* limb k of D, zero beyond its end
LimbAt(D, k) == IF k < 1 \/ k > Len(D) THEN 0 ELSE D[k]

\* the integer held by the n bits (0 <= n <= 18) of D that start at bit
\* i >= 1: they lie in one limb or in two neighbouring ones
Field(D, i, n) ==
  LET k == ((i - 1) \div 18) + 1     \* the limb of bit i
      here == 18 - ((i - 1) % 18)    \* bits of that limb from bit i on
  IN IF n <= 0 THEN 0
     ELSE IF n <= here THEN (LimbAt(D, k) \div 2^(here - n)) % 2^n
     ELSE (LimbAt(D, k) % 2^here) * 2^(n - here)
            + LimbAt(D, k + 1) \div 2^(18 - (n - here))

\* the double above [h, m, l, e] when its last bit is raised by one
FBump(h, m, l, e) ==
  IF l + 1 < Limb THEN [h |-> h, m |-> m, l |-> l + 1, e |-> e]
  ELSE IF m + 1 < Limb THEN [h |-> h, m |-> m + 1, l |-> 0, e |-> e]
  ELSE IF h + 1 < 2^17 THEN [h |-> h + 1, m |-> 0, l |-> 0, e |-> e]
  ELSE [h |-> 2^16, m |-> 0, l |-> 0, e |-> e + 1]

\* round the exact value held by the limbs D (bit i weighs 2^(w - i)), with
\* a non-zero rest below them when sticky, to the nearest double
RoundLimbs(D, w, sticky) ==
  LET first == CHOOSE k \in 1..Len(D) : D[k] # 0 /\ \A j \in 1..(k - 1) : D[j] = 0
      top == CHOOSE b \in 0..17 : 2^b <= D[first] /\ D[first] < 2^(b + 1)
      lead == 18 * first - top
      h == Field(D, lead, 17)
      m == Field(D, lead + 17, 18)
      l == Field(D, lead + 35, 18)
      e == w - (lead + P - 1)
      guard == BitAt(D, lead + P)
      rest == sticky \/ (\E k \in 1..Len(D) :
                            Field(D, Max(lead + P + 1, 18 * k - 17),
                                  18 * k - Max(lead + P + 1, 18 * k - 17) + 1) # 0)
  IN IF guard = 1 /\ (rest \/ l % 2 = 1)
     THEN FBump(h, m, l, e)
     ELSE [h |-> h, m |-> m, l |-> l, e |-> e]

\* n / d for integers 0 <= n, 0 < d (both below 2^13), correctly rounded
FDivInt(n, d) ==
  IF n = 0 THEN FZero
  ELSE LET f1 == ((n % d) * Limb) \div d
           r1 == ((n % d) * Limb) % d
           f2 == (r1 * Limb) \div d
           r2 == (r1 * Limb) % d
           f3 == (r2 * Limb) \div d
           r3 == (r2 * Limb) % d
           f4 == (r3 * Limb) \div d
           r4 == (r3 * Limb) % d
       IN RoundLimbs(<< n \div d, f1, f2, f3, f4 >>, 18, r4 # 0)

\* the double of an integer 0 <= n < 2^13
FInt(n) == FDivInt(n, 1)

\* the Numbers that are no positive double or zero
NaN == [kind |-> "NaN"]

Infinity == [kind |-> "Infinity"]

FNeg(f) == [neg |-> f]

\* n / d for an integer n >= 0 and any integer d: a division by zero gives
\* Infinity, or NaN for 0 / 0, and throws nothing
FDiv(n, d) ==
  IF d > 0 THEN FDivInt(n, d)
  ELSE IF d < 0 THEN FNeg(FDivInt(n, -d))
  ELSE IF n = 0 THEN NaN
  ELSE Infinity

\* f * c for a double f >= 0 and an integer 0 <= c < 2^13, correctly rounded
FMulInt(f, c) ==
  IF f = FZero \/ c = 0 THEN FZero
  ELSE LET pl == f.l * c
           pm == f.m * c + pl \div Limb
           ph == f.h * c + pm \div Limb
       IN RoundLimbs(<< ph \div Limb, ph % Limb, pm % Limb, pl % Limb >>, 72 + f.e, FALSE)

\* Math.round(f) for 0 <= f < 2^13: the nearest integer, a half rounds up
FRound(f) ==
  IF f = FZero THEN 0
  ELSE LET k == 54 + f.e   \* bits of << h, m, l >> before the binary point
       IN IF k < 0 THEN 0
          ELSE Field(<< f.h, f.m, f.l >>, 1, k) + BitAt(<< f.h, f.m, f.l >>, k + 1)

\* f < g for doubles f, g >= 0
FLess(f, g) ==
  IF g = FZero THEN FALSE
  ELSE IF f = FZero THEN TRUE
  ELSE IF f.e # g.e THEN f.e < g.e
  ELSE IF f.h # g.h THEN f.h < g.h
  ELSE IF f.m # g.m THEN f.m < g.m
  ELSE f.l < g.l

\* f and g are equal or neighbouring doubles
FWithinUlp(f, g) ==
  \/ f = g
  \/ f # FZero /\ FBump(f.h, f.m, f.l, f.e) = g
  \/ g # FZero /\ FBump(g.h, g.m, g.l, g.e) = f

(***************************************************************************)
(* Descriptor codec: _u8ToB64 / _b64ToU8 with the browser's btoa / atob.   *)
(* A Uint8Array is a sequence of 0..255; a JS binary string is a sequence  *)
(* of char codes; base64 text is a sequence of one-character strings.      *)
(***************************************************************************)
\* the chunk of _u8ToB64
chunk == 32768

B64Alphabet ==
  << "A","B","C","D","E","F","G","H","I","J","K","L","M","N","O","P",
     "Q","R","S","T","U","V","W","X","Y","Z","a","b","c","d","e","f",
     "g","h","i","j","k","l","m","n","o","p","q","r","s","t","u","v",
     "w","x","y","z","0","1","2","3","4","5","6","7","8","9","+","/" >>

B64Chars == {B64Alphabet[i] : i \in 1..64}

\* the sextet a base64 character stands for
B64Index == [c \in B64Chars |-> (CHOOSE i \in 1..64 : B64Alphabet[i] = c) - 1]

\* u8.subarray(begin, end): positions begin..end-1 (0-based), clamped to the array
subarray(u8, begin, end) == SubSeq(u8, begin + 1, Min(end, Len(u8)))

\* String.fromCharCode.apply(null, bytes): one code unit per byte
fromCharCode(bytes) == [i \in 1..Len(bytes) |-> bytes[i] % 65536]

\* btoa: 3 chars -> 4 sextets, '=' padding; throws on a char code above 255
btoa(binary) ==
  IF \E i \in 1..Len(binary) : binary[i] > 255
  THEN [ok |-> FALSE, error |-> "InvalidCharacterError"]
  ELSE
    LET n == Len(binary)
        groups == (n + 2) \div 3
        byteAt(k) == IF k <= n THEN binary[k] ELSE 0
        sextet(g, j) ==
          LET b0 == byteAt(3 * g + 1)
              b1 == byteAt(3 * g + 2)
              b2 == byteAt(3 * g + 3)
          IN CASE j = 0 -> b0 \div 4
               [] j = 1 -> (b0 % 4) * 16 + b1 \div 16
               [] j = 2 -> (b1 % 16) * 4 + b2 \div 64
               [] OTHER -> b2 % 64
        ch(p) ==
          LET g == (p - 1) \div 4
              j == (p - 1) % 4
          IN IF (j = 2 /\ 3 * g + 2 > n) \/ (j = 3 /\ 3 * g + 3 > n)
             THEN "="
             ELSE B64Alphabet[sextet(g, j) + 1]
    IN [ok |-> TRUE, value |-> [p \in 1..(4 * groups) |-> ch(p)]]

\* ASCII whitespace that atob strips is not part of the modelled texts.
\* atob (forgiving-base64 decode): strip up to two '=' when the length is a
\* multiple of 4; fail when length % 4 = 1 or a character is outside the
\* alphabet; decode sextets to bytes and drop the leftover bits.
atob(b64) ==
  LET n0 == Len(b64)
      pad == IF n0 % 4 = 0 /\ n0 > 0
             THEN IF b64[n0] = "=" THEN (IF b64[n0 - 1] = "=" THEN 2 ELSE 1) ELSE 0
             ELSE 0
      n == n0 - pad
  IN IF n % 4 = 1 \/ (\E i \in 1..n : b64[i] \notin B64Chars)
     THEN [ok |-> FALSE, error |-> "InvalidCharacterError"]
     ELSE
       LET outLen == (n * 6) \div 8
           six(k) == IF k <= n THEN B64Index[b64[k]] ELSE 0
           byte(q) ==
             LET g == (q - 1) \div 3
                 j == (q - 1) % 3
                 s0 == six(4 * g + 1)
                 s1 == six(4 * g + 2)
                 s2 == six(4 * g + 3)
                 s3 == six(4 * g + 4)
             IN CASE j = 0 -> s0 * 4 + s1 \div 16
                  [] j = 1 -> (s1 % 16) * 16 + s2 \div 4
                  [] OTHER -> (s2 % 4) * 64 + s3
       IN [ok |-> TRUE, value |-> [q \in 1..outLen |-> byte(q)]]

\* the loop of _u8ToB64: binary += fromCharCode(u8.subarray(i, i + chunk))
RECURSIVE u8Binary(_, _)
u8Binary(u8, i) ==
  IF i < Len(u8)
  THEN fromCharCode(subarray(u8, i, i + chunk)) \o u8Binary(u8, i + chunk)
  ELSE << >>

_u8ToB64(u8) == btoa(u8Binary(u8, 0))

\* a mutant of _b64ToU8: the copy loop starts at 1, so u8[0] keeps its initial 0
_b64ToU8SkipFirst(b64) ==
  LET bin == atob(b64)
  IN IF ~bin.ok THEN bin
     ELSE [ok |-> TRUE,
           value |-> [i \in 1..Len(bin.value) |-> IF i = 1 THEN 0 ELSE bin.value[i] % 256]]

\* u8[i] = bin.charCodeAt(i) into a Uint8Array (stores modulo 256)
_b64ToU8(b64) ==
  LET bin == atob(b64)
  IN IF ~bin.ok THEN bin
     ELSE [ok |-> TRUE, value |-> [i \in 1..Len(bin.value) |-> bin.value[i] % 256]]

(***************************************************************************)
(* Keypoints.  A detected keypoint has integer pixel coordinates x, y      *)
(* (exact doubles); a normalised keypoint has doubles in their place.      *)
(***************************************************************************)
\* a mutant of normalizeKeypoint: y is divided by the width
normalizeKeypointByWidth(kp, width, height) ==
  [kp EXCEPT !.x = FDivInt(kp.x, width), !.y = FDivInt(kp.y, width)]

\* exportJSON: ({...kp, x: kp.x / width, y: kp.y / height})
normalizeKeypoint(kp, width, height) ==
  [kp EXCEPT !.x = FDiv(kp.x, width), !.y = FDiv(kp.y, height)]

\* drawMatches: p1.x * imgA.cols, p1.y * imgA.rows
denormalizeKeypoint(p, cols, rows) ==
  [p EXCEPT !.x = FMulInt(p.x, cols), !.y = FMulInt(p.y, rows)]

(***************************************************************************)
(* JS values.  null and undefined are records of their own; an array that  *)
(* may also be null or undefined is wrapped by Arr.                        *)
(***************************************************************************)
Null == [kind |-> "null"]

Undefined == [kind |-> "undefined"]

Arr(items) == [kind |-> "array", items |-> items]

\* !v for the values of the model
Falsy(v) == v = Null \/ v = Undefined

\* object o has a property f
HasField(o, f) == f \in DOMAIN o

\* a call that returned value, leaving the native objects of `leaked` alive
Returned(value, leaked) == [thrown |-> FALSE, value |-> value, leaked |-> leaked]

\* a call that threw error at the statement `at`, leaving the native objects
\* of `leaked` alive
Thrown(error, at, leaked) ==
  [thrown |-> TRUE, error |-> error, at |-> at, leaked |-> leaked]

(***************************************************************************)
(* The vision library (OpenCV.js), as the module sees it.  Its answers     *)
(* are an oracle `lib`: which call throws (throwAt), the keypoints and     *)
(* descriptors detectAndCompute finds, the outcome of findHomography.      *)
(* A descriptor Mat is [rows, cols, data], data row after row.             *)
(***************************************************************************)
\* row i (from 0) of a descriptor matrix
DescRow(des, i) == SubSeq(des.data, i * des.cols + 1, (i + 1) * des.cols)

\* differing bits of two bytes
ByteDistance(a, b) ==
  Cardinality({k \in 0..7 : (a \div 2^k) % 2 # (b \div 2^k) % 2})

RECURSIVE Hamming(_, _)
\* NORM_HAMMING of two descriptor rows
Hamming(r1, r2) ==
  IF r1 = << >> \/ r2 = << >> THEN 0
  ELSE ByteDistance(Head(r1), Head(r2)) + Hamming(Tail(r1), Tail(r2))

\* train row t is a better neighbour of query row q than train row u:
\* nearer, or as near with the lower index
Nearer(srcDesc, tgtDesc, q, t, u) ==
  LET dt == Hamming(DescRow(srcDesc, q), DescRow(tgtDesc, t))
      du == Hamming(DescRow(srcDesc, q), DescRow(tgtDesc, u))
  IN dt < du \/ (dt = du /\ t < u)

\* the DMatch of query row q and train row t
DMatch(srcDesc, tgtDesc, q, t) ==
  [queryIdx |-> q, trainIdx |-> t,
   distance |-> Hamming(DescRow(srcDesc, q), DescRow(tgtDesc, t))]

\* bf.knnMatch(srcDesc, tgtDesc, knn, 2): for every query row its (up to)
\* two nearest train rows, nearest first; nothing when there is no train row
knnMatch(srcDesc, tgtDesc) ==
  IF tgtDesc.rows = 0 THEN << >>
  ELSE [ i \in 1..srcDesc.rows |->
         LET q == i - 1
             T == 0..(tgtDesc.rows - 1)
             best == CHOOSE t \in T : \A u \in T \ {t} : Nearer(srcDesc, tgtDesc, q, t, u)
         IN IF tgtDesc.rows = 1 THEN << DMatch(srcDesc, tgtDesc, q, best) >>
            ELSE LET second == CHOOSE t \in T \ {best} :
                                 \A u \in T \ {best, t} : Nearer(srcDesc, tgtDesc, q, t, u)
                 IN << DMatch(srcDesc, tgtDesc, q, best), DMatch(srcDesc, tgtDesc, q, second) >> ]

\* a mutant of countNonZero: every entry is counted
countNonZeroAll(mask) == Len(mask)

\* cv.countNonZero(mask)
countNonZero(mask) == Cardinality({i \in 1..Len(mask) : mask[i] # 0})

(***************************************************************************)
(* ORBModule (orb_module.js).                                              *)
(***************************************************************************)
\* new ORBModule(cv)
NewORBModule == [_lastCanvasMat |-> Null, _lastDetB |-> Undefined]

\* a mutant of _serializeKeypoints: the keypoints come out last first
_serializeKeypointsReversed(kpVec) ==
  [i \in 1..Len(kpVec) |->
     [x |-> kpVec[Len(kpVec) + 1 - i].x, y |-> kpVec[Len(kpVec) + 1 - i].y,
      size |-> kpVec[Len(kpVec) + 1 - i].size, angle |-> kpVec[Len(kpVec) + 1 - i].angle,
      response |-> kpVec[Len(kpVec) + 1 - i].response,
      octave |-> kpVec[Len(kpVec) + 1 - i].octave,
      class_id |-> kpVec[Len(kpVec) + 1 - i].class_id]]

\* _serializeKeypoints(kpVec): one JS object per keypoint, in order
_serializeKeypoints(kpVec) ==
  [i \in 1..Len(kpVec) |->
     [x |-> kpVec[i].x, y |-> kpVec[i].y, size |-> kpVec[i].size,
      angle |-> kpVec[i].angle, response |-> kpVec[i].response,
      octave |-> kpVec[i].octave, class_id |-> kpVec[i].class_id]]

\* _serializeDescriptors(des)
_serializeDescriptors(des) ==
  IF des.rows = 0 \/ des.cols = 0 THEN Null
  ELSE [rows |-> des.rows, cols |-> des.cols, data |-> des.data]

\* detectORB(srcRGBA, opts): gray and the detector are made before the try
\* block; the mask Mat made in the call of detectAndCompute is never deleted
detectORB(srcRGBA, lib) ==
  IF lib.throwAt \in {"cvtColor", "ORB"}
  THEN Thrown("cv exception", lib.throwAt, {"detectORB.gray"})
  ELSE IF lib.throwAt = "detectAndCompute"
  THEN Thrown("cv exception", lib.throwAt, {"detectORB.mask"})
  ELSE Returned([keypoints |-> _serializeKeypoints(lib.kpVec),
                 descriptors |-> _serializeDescriptors(lib.des),
                 width |-> srcRGBA.cols, height |-> srcRGBA.rows],
                {"detectORB.mask"})

\* a mutant of exportJSON: the keypoints keep their pixel coordinates
exportJSONPixels(detectResult) ==
  [version |-> 1,
   type |-> "ORB",
   imageSize |-> [width |-> detectResult.width, height |-> detectResult.height],
   keypoints |-> [i \in 1..Len(detectResult.keypoints) |->
                    [detectResult.keypoints[i] EXCEPT
                       !.x = FInt(detectResult.keypoints[i].x),
                       !.y = FInt(detectResult.keypoints[i].y)]],
   descriptors |-> IF Falsy(detectResult.descriptors) THEN Null
                   ELSE [rows |-> detectResult.descriptors.rows,
                         cols |-> detectResult.descriptors.cols,
                         data_b64 |-> _u8ToB64(detectResult.descriptors.data).value]]

\* exportJSON(detectResult)
exportJSON(detectResult) ==
  [version |-> 1,
   type |-> "ORB",
   imageSize |-> [width |-> detectResult.width, height |-> detectResult.height],
   keypoints |-> [i \in 1..Len(detectResult.keypoints) |->
                    normalizeKeypoint(detectResult.keypoints[i],
                                      detectResult.width, detectResult.height)],
   descriptors |-> IF Falsy(detectResult.descriptors) THEN Null
                   ELSE [rows |-> detectResult.descriptors.rows,
                         cols |-> detectResult.descriptors.cols,
                         data_b64 |-> _u8ToB64(detectResult.descriptors.data).value]]

\* the detection result importJSON builds once the document is accepted
importedResult(obj) ==
  IF ~HasField(obj, "imageSize") THEN Thrown("TypeError", "imageSize", {})
  ELSE IF ~HasField(obj, "descriptors") \/ Falsy(obj.descriptors)
  THEN Returned([width |-> obj.imageSize.width, height |-> obj.imageSize.height,
                 keypoints |-> obj.keypoints, descriptors |-> Null], {})
  ELSE LET data == _b64ToU8(obj.descriptors.data_b64)
       IN IF ~data.ok THEN Thrown(data.error, "atob", {})
          ELSE Returned([width |-> obj.imageSize.width, height |-> obj.imageSize.height,
                         keypoints |-> obj.keypoints,
                         descriptors |-> [rows |-> obj.descriptors.rows,
                                          cols |-> obj.descriptors.cols,
                                          data |-> data.value]], {})

\* a mutant of importJSON: the type of the document is not looked at
importJSONAnyType(obj) ==
  IF Falsy(obj) THEN Thrown("Invalid features JSON", "validate", {})
  ELSE importedResult(obj)

\* importJSON(obj): if (!obj || obj.type !== "ORB") throw
importJSON(obj) ==
  IF Falsy(obj) \/ ~HasField(obj, "type") \/ obj.type # "ORB"
  THEN Thrown("Invalid features JSON", "validate", {})
  ELSE importedResult(obj)

\* the native objects matchToTarget holds when the library throws at `at`
matchToTargetLive(at) ==
  LET upToGray == {"matchToTarget.srcDesc", "matchToTarget.gray"}
      upToEmpty == upToGray \cup {"matchToTarget.orb", "matchToTarget.tgtKP",
                                  "matchToTarget.tgtDesc", "matchToTarget.empty"}
  IN CASE at \in {"cvtColor", "ORB"} -> upToGray
       [] at = "detectAndCompute" -> upToEmpty
       [] at = "knnMatch" -> upToEmpty \cup {"matchToTarget.bf", "matchToTarget.knn"}
       [] at = "srcPts" -> upToEmpty \cup {"matchToTarget.bf", "matchToTarget.srcPts",
                                         "matchToTarget.dstPts"}
       [] at = "findHomography" -> upToEmpty \cup {"matchToTarget.bf", "matchToTarget.srcPts",
                                                  "matchToTarget.dstPts", "matchToTarget.mask"}

\* the source descriptor bytes: descriptors.data when there is one, else the
\* decoding of descriptors.data_b64 (atob(undefined) fails)
srcU8Of(descriptors) ==
  IF HasField(descriptors, "data") THEN [ok |-> TRUE, value |-> descriptors.data]
  ELSE IF HasField(descriptors, "data_b64") THEN _b64ToU8(descriptors.data_b64)
  ELSE [ok |-> FALSE, error |-> "InvalidCharacterError"]

\* a mutant of ratioTest: the comparison is the other way round
ratioTestInverted(knn, ratio) ==
  LET Passes(vec) ==
        /\ Len(vec) >= 2
        /\ ~FLess(FInt(vec[1].distance), FMulInt(ratio, vec[2].distance))
      kept == SelectSeq(knn, Passes)
  IN [i \in 1..Len(kept) |-> kept[i][1]]

\* a mutant of ratioTest: a list with a single neighbour passes
ratioTestSingle(knn, ratio) ==
  LET Passes(vec) ==
        \/ Len(vec) = 1
        \/ /\ Len(vec) >= 2
           /\ FLess(FInt(vec[1].distance), FMulInt(ratio, vec[2].distance))
      kept == SelectSeq(knn, Passes)
  IN [i \in 1..Len(kept) |-> kept[i][1]]

\* the ratio test on the lists of neighbours: the best match of a list is
\* kept when the list has two entries and m.distance < ratio * n.distance
ratioTest(knn, ratio) ==
  LET Passes(vec) ==
        /\ Len(vec) >= 2
        /\ FLess(FInt(vec[1].distance), FMulInt(ratio, vec[2].distance))
      kept == SelectSeq(knn, Passes)
  IN [i \in 1..Len(kept) |-> kept[i][1]]

\* a mutant of minGood: three matches are enough
minGoodLower == 4 - 1

\* the fewest matches for which a homography is estimated
minGood == 4

\* the homography part of the result, from the good matches
homographyOf(good, lib) ==
  IF Len(good) >= minGood /\ ~lib.ransac.empty
  THEN [homography |-> Arr(lib.ransac.H),
        numInliers |-> countNonZero(lib.ransac.mask),
        inlierMask |-> Arr([i \in 1..Len(lib.ransac.mask) |-> lib.ransac.mask[i] # 0])]
  ELSE [homography |-> Null, numInliers |-> 0, inlierMask |-> Null]

\* a matchToTarget that returns no match on a module that was used before
matchToTargetRemembering(self, sourceJson, targetMat, opts, lib) ==
  LET Throw(error, at, leaked) ==
        [thrown |-> TRUE, error |-> error, at |-> at, leaked |-> leaked, self |-> self]
  IN
  IF \/ Falsy(sourceJson)
     \/ ~HasField(sourceJson, "descriptors")
     \/ Falsy(sourceJson.descriptors)
     \/ sourceJson.descriptors.rows = 0
     \/ sourceJson.descriptors.cols = 0
  THEN Throw("Invalid features JSON: missing descriptors", "validate", {})
  ELSE
  LET d == sourceJson.descriptors
      srcU8 == srcU8Of(d)
  IN
  IF ~srcU8.ok THEN Throw(srcU8.error, "atob", {})
  ELSE IF Len(srcU8.value) > d.rows * d.cols
  THEN Throw("RangeError", "matFromArray", {"matchToTarget.srcDesc"})
  ELSE IF lib.throwAt \in {"cvtColor", "ORB", "detectAndCompute"}
  THEN Throw("cv exception", lib.throwAt, matchToTargetLive(lib.throwAt))
  ELSE
  LET srcDesc == [rows |-> d.rows, cols |-> d.cols,
                  data |-> [i \in 1..(d.rows * d.cols) |->
                              IF i <= Len(srcU8.value) THEN srcU8.value[i]
                              ELSE lib.uninit]]
      tgtDesc == lib.des
  IN
  IF \/ lib.throwAt = "knnMatch"
     \/ (tgtDesc.rows = 0 /\ lib.emptyTrain = "throws")
     \/ (tgtDesc.rows > 0 /\ tgtDesc.cols # srcDesc.cols)
  THEN Throw("cv exception", "knnMatch", matchToTargetLive("knnMatch"))
  ELSE
  LET good == IF self._lastDetB = Undefined
              THEN ratioTest(knnMatch(srcDesc, tgtDesc), opts.ratio)
              ELSE << >>
  IN
  IF /\ Len(good) >= minGood
     /\ \/ ~HasField(sourceJson, "keypoints")
        \/ \E i \in 1..Len(good) : good[i].queryIdx + 1 > Len(sourceJson.keypoints)
  THEN Throw("TypeError", "srcPts", matchToTargetLive("srcPts"))
  ELSE IF Len(good) >= minGood /\ lib.throwAt = "findHomography"
  THEN Throw("cv exception", "findHomography", matchToTargetLive("findHomography"))
  ELSE
  LET h == homographyOf(good, lib)
  IN [thrown |-> FALSE,
      value |-> [matches |-> good, homography |-> h.homography,
                 numInliers |-> h.numInliers, inlierMask |-> h.inlierMask],
      leaked |-> {},
      self |-> [self EXCEPT !._lastDetB = [keypoints |-> _serializeKeypoints(lib.kpVec)]]]

\* matchToTarget(sourceJson, targetMat, opts) on the module `self`.  There
\* is no try block: a throw leaves alive whatever was allocated before it.
\* The result carries the module after the call in `self`.
matchToTarget(self, sourceJson, targetMat, opts, lib) ==
  LET Throw(error, at, leaked) ==
        [thrown |-> TRUE, error |-> error, at |-> at, leaked |-> leaked, self |-> self]
  IN
  IF \/ Falsy(sourceJson)
     \/ ~HasField(sourceJson, "descriptors")
     \/ Falsy(sourceJson.descriptors)
     \/ sourceJson.descriptors.rows = 0
     \/ sourceJson.descriptors.cols = 0
  THEN Throw("Invalid features JSON: missing descriptors", "validate", {})
  ELSE
  LET d == sourceJson.descriptors
      srcU8 == srcU8Of(d)
  IN
  IF ~srcU8.ok THEN Throw(srcU8.error, "atob", {})
  ELSE IF Len(srcU8.value) > d.rows * d.cols
  THEN Throw("RangeError", "matFromArray", {"matchToTarget.srcDesc"})
  ELSE IF lib.throwAt \in {"cvtColor", "ORB", "detectAndCompute"}
  THEN Throw("cv exception", lib.throwAt, matchToTargetLive(lib.throwAt))
  ELSE
  LET srcDesc == [rows |-> d.rows, cols |-> d.cols,
                  data |-> [i \in 1..(d.rows * d.cols) |->
                              IF i <= Len(srcU8.value) THEN srcU8.value[i]
                              ELSE lib.uninit]]
      tgtDesc == lib.des
  IN
  IF \/ lib.throwAt = "knnMatch"
     \/ (tgtDesc.rows = 0 /\ lib.emptyTrain = "throws")
     \/ (tgtDesc.rows > 0 /\ tgtDesc.cols # srcDesc.cols)
  THEN Throw("cv exception", "knnMatch", matchToTargetLive("knnMatch"))
  ELSE
  LET good == ratioTest(knnMatch(srcDesc, tgtDesc), opts.ratio)
  IN
  IF /\ Len(good) >= minGood
     /\ \/ ~HasField(sourceJson, "keypoints")
        \/ \E i \in 1..Len(good) : good[i].queryIdx + 1 > Len(sourceJson.keypoints)
  THEN Throw("TypeError", "srcPts", matchToTargetLive("srcPts"))
  ELSE IF Len(good) >= minGood /\ lib.throwAt = "findHomography"
  THEN Throw("cv exception", "findHomography", matchToTargetLive("findHomography"))
  ELSE
  LET h == homographyOf(good, lib)
  IN [thrown |-> FALSE,
      value |-> [matches |-> good, homography |-> h.homography,
                 numInliers |-> h.numInliers, inlierMask |-> h.inlierMask],
      leaked |-> {},
      self |-> [self EXCEPT !._lastDetB = [keypoints |-> _serializeKeypoints(lib.kpVec)]]]

\* a cv.Point
Point(x, y) == [x |-> x, y |-> y]

\* drawKeypoints(imgRGBA, keypoints, outCanvas): the centres of the circles
\* drawn, Math.round of pixel coordinates that are integers already
drawKeypoints(imgRGBA, keypoints) ==
  [i \in 1..Len(keypoints) |-> Point(keypoints[i].x, keypoints[i].y)]

\* drawMatches(imgA, imgB, keypointsA, keypointsB, matchRes): for every match
\* whose two keypoints exist, the end points a, b of its line and whether
\* it is drawn as an inlier; keypointsA are multiplied by the size of imgA
drawMatches(imgA, imgB, keypointsA, keypointsB, matchRes) ==
  LET Has(i) ==
        /\ matchRes.matches[i].queryIdx + 1 <= Len(keypointsA)
        /\ matchRes.matches[i].trainIdx + 1 <= Len(keypointsB)
      Line(i) ==
        LET p1 == denormalizeKeypoint(keypointsA[matchRes.matches[i].queryIdx + 1],
                                      imgA.cols, imgA.rows)
            p2 == keypointsB[matchRes.matches[i].trainIdx + 1]
        IN [match |-> i,
            a |-> Point(FRound(p1.x), FRound(p1.y)),
            b |-> Point(p2.x + imgA.cols, p2.y),
            inlier |-> IF matchRes.inlierMask = Null THEN TRUE
                       ELSE matchRes.inlierMask.items[i]]
      drawn == SelectSeq([i \in 1..Len(matchRes.matches) |-> i], Has)
  IN [k \in 1..Len(drawn) |-> Line(drawn[k])]

(***************************************************************************)
(* main.js: the page's helpers.                                            *)
(***************************************************************************)
\* an <img> element that shows no image
NoImage == [cols |-> 0, rows |-> 0]

\* a refreshButtons that enables Download for any detection result
refreshButtonsAnyResult(cv, aReady, bReady, det, json) ==
  [detect |-> ~(cv /\ aReady),
   download |-> Falsy(det),
   match |-> ~(cv /\ bReady /\ (~Falsy(json) \/ ~Falsy(det)))]

\* refreshButtons(): the disabled flags of the three buttons
refreshButtons(cv, aReady, bReady, det, json) ==
  [detect |-> ~(cv /\ aReady),
   download |-> ~(~Falsy(det) /\ ~Falsy(det.descriptors)),
   match |-> ~(cv /\ bReady /\ (~Falsy(json) \/ ~Falsy(det)))]

\* cropImage(img, cropRect) then matFromImageEl: a Mat of the crop's size
cropImage(img, cropRect) == [cols |-> cropRect.width, rows |-> cropRect.height]

\* keypoints.map(kp => ({...kp, x: kp.x + cropRect.x, y: kp.y + cropRect.y}))
offsetKeypoints(keypoints, cropRect) ==
  [i \in 1..Len(keypoints) |->
     [keypoints[i] EXCEPT !.x = keypoints[i].x + cropRect.x,
                          !.y = keypoints[i].y + cropRect.y]]

(***************************************************************************)
(* State.                                                                  *)
(***************************************************************************)
VARIABLES
  codecPc,    \* codec harness: "input", "encoded", "decoded", or
              \* "corrupted", "decodedCorrupted" for a damaged text
  codecU8,    \* the byte sequence handed to _u8ToB64
  codecB64,   \* the result of _u8ToB64, or the text it was damaged to
  codecOut    \* the result of _b64ToU8 on it

codecVars == << codecPc, codecU8, codecB64, codecOut >>

VARIABLES
  normPc,     \* normaliser harness: "input", "normalized", "denormalized"
  normIn,     \* [kp, width, height]: a detected keypoint and its image size
  normKp,     \* the keypoint as exportJSON normalises it
  denormKp    \* that keypoint multiplied back by the same width and height

normVars == << normPc, normIn, normKp, denormKp >>

VARIABLES
  mod,        \* the ORBModule instance (undefined before it is created)
  heap,       \* module harness: the allocation sites whose native object
              \* is still alive
  call        \* module harness: the last call of a module method, its
              \* arguments and its outcome

modVars == << mod, heap, call >>

VARIABLES
  cvReady,      \* main.js: OpenCV.js readiness flag
  imgAReady,    \* main.js: Image A readiness flag
  imgBReady,    \* main.js: Image B readiness flag
  detectResult, \* main.js: the detection result, or null
  loadedJSON,   \* main.js: the loaded feature document, or null
  imgA,         \* the image the element imgA shows (its natural size)
  imgB,         \* the image the element imgB shows
  buttons,      \* the disabled flags of btnDetect, btnDownload, btnMatch
  canvasA,      \* the keypoints drawn on canvasA by the last detection,
                \* << >> while it is hidden
  pending,      \* the loads started into imgA: the extracted frames whose
                \* imgA.onload has not run yet and, where the fileA handler
                \* is followed across its await, the files handed to loadImg
  video,        \* the video element of the frame extractor: whether it has
                \* a source, whether a seek is under way, the extractFrame
                \* calls whose callbacks are its onseeked and onerror, and
                \* the state of the promise of every extractFrame call
  last          \* the last handler that ran: its outcome, what it called,
                \* what it drew and the native objects it left alive

appVars == << cvReady, imgAReady, imgBReady, detectResult, loadedJSON,
              imgA, imgB, buttons, canvasA, pending, video, last >>

vars == << codecVars, normVars, modVars, appVars >>

None == [ok |-> FALSE, error |-> "not called"]

CodecIdle ==
  /\ codecPc = "idle"
  /\ codecU8 = << >>
  /\ codecB64 = None
  /\ codecOut = None

NormIdle ==
  /\ normPc = "idle"
  /\ normIn = None
  /\ normKp = None
  /\ denormKp = None

NoCall == [fn |-> "none"]

ModIdle ==
  /\ mod = Undefined
  /\ heap = {}
  /\ call = NoCall

NoHandler == [handler |-> "none", outcome |-> "none"]

\* canvasA while it is hidden
HiddenCanvas == << >>

\* a video element without a source, on which extractFrame was not called
NoVideo == [src |-> FALSE, seeking |-> FALSE, onseeked |-> 0, onerror |-> 0,
            calls |-> << >>]

\* the page as its script leaves it: nothing loaded, every button disabled
AppIdle ==
  /\ cvReady = FALSE
  /\ imgAReady = FALSE
  /\ imgBReady = FALSE
  /\ detectResult = Null
  /\ loadedJSON = Null
  /\ imgA = NoImage
  /\ imgB = NoImage
  /\ buttons = [detect |-> TRUE, download |-> TRUE, match |-> TRUE]
  /\ canvasA = HiddenCanvas
  /\ pending = {}
  /\ video = NoVideo
  /\ last = NoHandler

(***************************************************************************)
(* The codec on its own: a byte buffer is encoded, the text decoded.       *)
(***************************************************************************)
ByteSamples == {0, 1, 127, 128, 255}

\* a long buffer of n bytes whose contents vary with the position
LongBuffer(n, seed) == [i \in 1..n |-> (i * 7 + seed) % 256]

CodecInputs ==
  SeqsUpTo(ByteSamples, MaxLen)
    \cup {LongBuffer(chunk + d, d) : d \in (0 - 1)..MaxOver}

CodecInit ==
  /\ codecPc = "input"
  /\ codecU8 \in CodecInputs
  /\ codecB64 = None
  /\ codecOut = None
  /\ NormIdle
  /\ ModIdle
  /\ AppIdle

Encode ==
  /\ codecPc = "input"
  /\ codecB64' = _u8ToB64(codecU8)
  /\ codecPc' = "encoded"
  /\ UNCHANGED << codecU8, codecOut, normVars, modVars, appVars >>

Decode ==
  /\ codecPc = "encoded"
  /\ codecB64.ok
  /\ codecOut' = _b64ToU8(codecB64.value)
  /\ codecPc' = "decoded"
  /\ UNCHANGED << codecU8, codecB64, normVars, modVars, appVars >>

\* the texts a short encoded text becomes when it is damaged: its last one
\* to three characters are lost, or one character is replaced by one that
\* is not in the base64 alphabet
Corruptions(b64) ==
  {SubSeq(b64, 1, Len(b64) - k) : k \in 1..Min(3, Len(b64))}
    \cup {[b64 EXCEPT ![i] = "*"] : i \in 1..Len(b64)}

\* the encoded text of a short buffer is damaged on its way
Corrupt ==
  /\ codecPc = "encoded"
  /\ codecB64.ok
  /\ Len(codecU8) <= MaxLen
  /\ \E text \in Corruptions(codecB64.value) :
       codecB64' = [ok |-> TRUE, value |-> text]
  /\ codecPc' = "corrupted"
  /\ UNCHANGED << codecU8, codecOut, normVars, modVars, appVars >>

\* _b64ToU8 on the damaged text
DecodeCorrupted ==
  /\ codecPc = "corrupted"
  /\ codecOut' = _b64ToU8(codecB64.value)
  /\ codecPc' = "decodedCorrupted"
  /\ UNCHANGED << codecU8, codecB64, normVars, modVars, appVars >>

CodecNext == Encode \/ Decode \/ Corrupt \/ DecodeCorrupted

SpecCodec == CodecInit /\ [][CodecNext]_vars

\* C1: decoding the encoding of any byte sequence (empty, short, or longer
\* than the chunk) gives a sequence of the same length with the same bytes
\* in the same order.
CodecRoundTrip ==
  codecPc = "decoded" =>
    /\ codecOut.ok
    /\ Len(codecOut.value) = Len(codecU8)
    /\ \A i \in 1..Len(codecU8) : codecOut.value[i] = codecU8[i]

\* a buffer longer than one chunk has gone through encode and decode
CodecRoundTripWitness ==
  codecPc = "decoded" /\ Len(codecU8) > chunk /\ codecOut.ok

(***************************************************************************)
(* The keypoint normaliser on its own: exportJSON's division followed by   *)
(* drawMatches' multiplication with the same width and height.             *)
(***************************************************************************)
\* what a keypoint carries besides its position
KeypointRests ==
  { [size |-> 31, angle |-> 0, response |-> 1, octave |-> 0, class_id |-> 0 - 1],
    [size |-> 37, angle |-> 90, response |-> 2, octave |-> 1, class_id |-> 0 - 1] }

Keypoint(x, y, r) ==
  [x |-> x, y |-> y, size |-> r.size, angle |-> r.angle, response |-> r.response,
   octave |-> r.octave, class_id |-> r.class_id]

KeypointRest(kp) ==
  [size |-> kp.size, angle |-> kp.angle, response |-> kp.response,
   octave |-> kp.octave, class_id |-> kp.class_id]

NormInit ==
  /\ normPc = "input"
  /\ \E w \in 1..MaxW, h \in 1..MaxH :
       \E x \in 0..(w - 1), y \in 0..(h - 1), r \in KeypointRests :
         normIn = [kp |-> Keypoint(x, y, r), width |-> w, height |-> h]
  /\ normKp = None
  /\ denormKp = None
  /\ CodecIdle
  /\ ModIdle
  /\ AppIdle

Normalize ==
  /\ normPc = "input"
  /\ normKp' = normalizeKeypoint(normIn.kp, normIn.width, normIn.height)
  /\ normPc' = "normalized"
  /\ UNCHANGED << normIn, denormKp, codecVars, modVars, appVars >>

Denormalize ==
  /\ normPc = "normalized"
  /\ denormKp' = denormalizeKeypoint(normKp, normIn.width, normIn.height)
  /\ normPc' = "denormalized"
  /\ UNCHANGED << normIn, normKp, codecVars, modVars, appVars >>

NormNext == Normalize \/ Denormalize

SpecNorm == NormInit /\ [][NormNext]_vars

DescByteSeq == << 0, 1, 7 >>

DescBytes == {DescByteSeq[i] : i \in 1..Len(DescByteSeq)}

\* the descriptor rows of source images: every choice of up to two rows
\* and, for more rows, a repeated byte or the bytes in rotation
SourceRows ==
  SeqsUpTo(DescBytes, 2)
    \cup {[i \in 1..n |-> b] : n \in 3..MaxSrcRows, b \in DescBytes}
    \cup {[i \in 1..n |-> DescByteSeq[((i + s) % Len(DescByteSeq)) + 1]] :
            n \in 3..MaxSrcRows, s \in 1..Len(DescByteSeq)}

\* what detectAndCompute finds: one keypoint per descriptor row, keypoint i
\* at pixel (i mod w, i mod h) of a w x h image
Features(rows, w, h) ==
  [kpVec |-> [i \in 1..Len(rows) |->
                Keypoint(i % w, i % h, CHOOSE r \in KeypointRests : r.octave = 0)],
   des |-> [rows |-> Len(rows), cols |-> IF rows = << >> THEN 0 ELSE 1, data |-> rows]]

\* an RGBA image Mat
Image(w, h) == [cols |-> w, rows |-> h]

\* the statements of detectORB at which the library may throw
DetectThrowPoints == {"none", "cvtColor", "ORB", "detectAndCompute"}

\* the statements of matchToTarget at which the library may throw
MatchThrowPoints == DetectThrowPoints \cup {"knnMatch", "findHomography"}

\* what findHomography may answer for n point pairs: no homography, or one
\* with every pair an inlier, or one with every pair but the last
RansacOutcomes(n) ==
  LET H == << 1, 0, 0, 0, 1, 0, 0, 0, 1 >>
  IN { [empty |-> TRUE, H |-> << >>, mask |-> [i \in 1..n |-> 0]],
       [empty |-> FALSE, H |-> H, mask |-> [i \in 1..n |-> 1]],
       [empty |-> FALSE, H |-> H, mask |-> [i \in 1..n |-> IF i = n THEN 0 ELSE 1]] }

\* the ratios of the harness, as doubles
Ratios == {FDivInt(1, 2), FDivInt(3, 4)}

\* the detection results of source images, and the documents made of them
SourceResults ==
  { detectORB(Image(ImageW, ImageH),
              [throwAt |-> "none"] @@ Features(rows, ImageW, ImageH)).value :
      rows \in SourceRows }

\* documents matchToTarget may be handed: exported detections, some of
\* them with another type, without keypoints or with no rows, and no
\* document at all
SourceDocs ==
  LET exported == {exportJSON(r) : r \in SourceResults}
      full == {exportJSON(detectORB(Image(ImageW, ImageH),
                                    [throwAt |-> "none"]
                                      @@ Features([i \in 1..MaxSrcRows |-> b],
                                                  ImageW, ImageH)).value) :
                 b \in DescBytes}
  IN exported
       \cup {[d EXCEPT !.type = "SIFT"] : d \in full}
       \cup {[f \in DOMAIN d \ {"keypoints"} |-> d[f]] : d \in full}
       \cup {[d EXCEPT !.descriptors.rows = 0] : d \in full}
       \cup {Null, Undefined}

\* documents importJSON may be handed
ImportDocs ==
  LET exported == {exportJSON(r) : r \in SourceResults}
  IN exported
       \cup {[d EXCEPT !.type = t] : d \in exported, t \in {"SIFT", "orb", ""}}
       \cup {[f \in DOMAIN d \ {"type"} |-> d[f]] : d \in exported}
       \cup {[f \in DOMAIN d \ {"imageSize"} |-> d[f]] : d \in exported}
       \cup {Null, Undefined}

ModuleInit ==
  /\ mod = NewORBModule
  /\ heap = {}
  /\ call = NoCall
  /\ CodecIdle
  /\ NormIdle
  /\ AppIdle

CallDetectORB ==
  /\ call = NoCall
  /\ \E rows \in SeqsUpTo(DescBytes, MaxTgtRows), throwAt \in DetectThrowPoints :
       LET srcRGBA == Image(ImageW, ImageH)
           lib == [throwAt |-> throwAt] @@ Features(rows, ImageW, ImageH)
           result == detectORB(srcRGBA, lib)
       IN /\ call' = [fn |-> "detectORB", srcRGBA |-> srcRGBA, lib |-> lib,
                      result |-> result]
          /\ heap' = heap \cup result.leaked
  /\ UNCHANGED << mod, codecVars, normVars, appVars >>

\* widths and heights that are no size of an image
BadDimensions ==
  {<< 0, ImageH >>, << ImageW, 0 >>, << 0, 0 >>, << 0 - ImageW, ImageH >>}

\* detection results with such a size
BadResults ==
  {[r EXCEPT !.width = d[1], !.height = d[2]] :
     r \in {s \in SourceResults : Len(s.keypoints) = 2}, d \in BadDimensions}

CallExportJSON ==
  /\ call = NoCall
  /\ \E det \in SourceResults \cup BadResults :
       call' = [fn |-> "exportJSON", detectResult |-> det,
                result |-> Returned(exportJSON(det), {})]
  /\ UNCHANGED << mod, heap, codecVars, normVars, appVars >>

CallImportJSON ==
  /\ call = NoCall
  /\ \E obj \in ImportDocs :
       call' = [fn |-> "importJSON", obj |-> obj, result |-> importJSON(obj)]
  /\ UNCHANGED << mod, heap, codecVars, normVars, appVars >>

\* the library's answers to one matchToTarget call that finds the
\* descriptor rows `rows` on the target
MatchLib(throwAt, emptyTrain, rows) ==
  [throwAt |-> throwAt, emptyTrain |-> emptyTrain, uninit |-> 0,
   ransac |-> CHOOSE o \in RansacOutcomes(0) : o.empty]
    @@ Features(rows, ImageW, ImageH)

\* the answers tried: a throw before the target's features are found needs
\* no features, and what knnMatch does without train descriptors matters
\* only for a target that has none
MatchLibs ==
  {MatchLib(throwAt, "throws", rows) :
     throwAt \in {"none", "knnMatch", "findHomography"},
     rows \in SeqsUpTo(DescBytes, MaxTgtRows)}
    \cup {MatchLib(throwAt, "throws", << >>) : throwAt \in MatchThrowPoints}
    \cup {MatchLib("none", "empty", << >>)}

CallMatchToTarget ==
  /\ call = NoCall
  /\ \E sourceJson \in SourceDocs, lib0 \in MatchLibs, ratio \in Ratios :
       /\ lib0.throwAt \notin {"none", "findHomography"} => ratio = FDivInt(3, 4)
       /\ \E first \in {matchToTarget(mod, sourceJson, Image(ImageW, ImageH),
                                      [ratio |-> ratio], lib0)} :
            \E ransac \in IF ~first.thrown /\ Len(first.value.matches) >= minGood
                          THEN RansacOutcomes(Len(first.value.matches))
                          ELSE {lib0.ransac} :
              \E lib \in {[lib0 EXCEPT !.ransac = ransac]} :
                \E result \in {IF ransac = lib0.ransac THEN first
                               ELSE matchToTarget(mod, sourceJson, Image(ImageW, ImageH),
                                                  [ratio |-> ratio], lib)} :
                  /\ call' = [fn |-> "matchToTarget", sourceJson |-> sourceJson,
                              targetMat |-> Image(ImageW, ImageH),
                              opts |-> [ratio |-> ratio], lib |-> lib,
                              result |-> result]
                  /\ mod' = result.self
                  /\ heap' = heap \cup result.leaked
  /\ UNCHANGED << codecVars, normVars, appVars >>

ModuleNext == CallDetectORB \/ CallExportJSON \/ CallImportJSON \/ CallMatchToTarget

SpecModule == ModuleInit /\ [][ModuleNext]_vars

\* the source descriptor rows the last matchToTarget call was given
CallSrcRows == srcU8Of(call.sourceJson.descriptors).value

\* the target descriptor rows the library found in that call
CallTgtRows == call.lib.des.data

\* the distance of row q of src to row t of tgt (both from 1)
RowDistance(src, tgt, q, t) == Hamming(<< src[q] >>, << tgt[t] >>)

\* row q of src has two neighbours in tgt, the nearest t1 and the next t2,
\* with distance(t1) < ratio * distance(t2)
PassesRatio(src, tgt, ratio, q) ==
  \E t1, t2 \in 1..Len(tgt) :
    /\ t1 # t2
    /\ \A u \in 1..Len(tgt) : RowDistance(src, tgt, q, t1) <= RowDistance(src, tgt, q, u)
    /\ \A u \in 1..Len(tgt) \ {t1} :
         RowDistance(src, tgt, q, t2) <= RowDistance(src, tgt, q, u)
    /\ FLess(FInt(RowDistance(src, tgt, q, t1)),
             FMulInt(ratio, RowDistance(src, tgt, q, t2)))

\* C4: matchToTarget keeps the best match of a source descriptor if and
\* only if the descriptor has at least two neighbours and
\* distance(1st) < ratio * distance(2nd); the kept match is the nearest
\* neighbour, and a descriptor with fewer than two neighbours is dropped.
RatioTestIff ==
  (call.fn = "matchToTarget" /\ ~call.result.thrown) =>
    \A src \in {CallSrcRows}, tgt \in {CallTgtRows}, matches \in {call.result.value.matches} :
       /\ \A q \in 1..Len(src) :
            (\E i \in 1..Len(matches) : matches[i].queryIdx = q - 1)
              <=> (Len(tgt) >= 2 /\ PassesRatio(src, tgt, call.opts.ratio, q))
       /\ \A i \in 1..Len(matches) :
            /\ matches[i].distance
                 = RowDistance(src, tgt, matches[i].queryIdx + 1, matches[i].trainIdx + 1)
            /\ \A u \in 1..Len(tgt) :
                 matches[i].distance <= RowDistance(src, tgt, matches[i].queryIdx + 1, u)
            /\ \A j \in 1..Len(matches) :
                 matches[j].queryIdx = matches[i].queryIdx => j = i

\* a source and a target of one row each at distance 0 gave no match
RatioTestWitness ==
  /\ call.fn = "matchToTarget"
  /\ ~call.result.thrown
  /\ Len(CallSrcRows) = 1
  /\ Len(CallTgtRows) = 1
  /\ RowDistance(CallSrcRows, CallTgtRows, 1, 1) = 0
  /\ call.result.value.matches = << >>

\* the rows of src that survive the ratio test against tgt
Survivors(src, tgt, ratio) ==
  {q \in 1..Len(src) : Len(tgt) >= 2 /\ PassesRatio(src, tgt, ratio, q)}

\* C5: whenever the ratio test of a matchToTarget call leaves fewer than 4
\* matches, the call returns normally with homography = null,
\* numInliers = 0 and no inlier mask.
HomographyAbsent ==
  (/\ call.fn = "matchToTarget"
   /\ (~call.result.thrown \/ call.result.at \in {"srcPts", "findHomography"})) =>
    \A n \in {Cardinality(Survivors(CallSrcRows, CallTgtRows, call.opts.ratio))} :
      n < 4 =>
        /\ ~call.result.thrown
        /\ Len(call.result.value.matches) = n
        /\ call.result.value.homography = Null
        /\ call.result.value.numInliers = 0
        /\ call.result.value.inlierMask = Null

\* a call that three matches survived returned without a homography
HomographyAbsentWitness ==
  /\ call.fn = "matchToTarget"
  /\ ~call.result.thrown
  /\ Len(call.result.value.matches) = 3
  /\ call.result.value.homography = Null

\* C7: importJSON throws "Invalid features JSON", and returns no detection
\* result, for every document that is null or undefined or whose type is
\* not "ORB".
ImportRejectsOtherTypes ==
  (/\ call.fn = "importJSON"
   /\ (Falsy(call.obj) \/ ~HasField(call.obj, "type") \/ call.obj.type # "ORB")) =>
    /\ call.result.thrown
    /\ call.result.error = "Invalid features JSON"

\* a document of type "SIFT" with descriptors was rejected
ImportRejectsWitness ==
  /\ call.fn = "importJSON"
  /\ ~Falsy(call.obj)
  /\ HasField(call.obj, "type")
  /\ call.obj.type = "SIFT"
  /\ ~Falsy(call.obj.descriptors)
  /\ call.result.thrown

\* C10: when a call of detectORB or matchToTarget has returned or thrown,
\* every native object it allocated has been deleted: it left none alive
\* and the heap is as before the call (empty).
NativesReleased ==
  call.fn \in {"detectORB", "matchToTarget"} =>
    /\ call.result.leaked = {}
    /\ heap = {}

(***************************************************************************)
(* The page: the event handlers of main.js on the state of the script.     *)
(* A handler that awaits a load (fileA, fileB, fileJSON, Extract frame)    *)
(* changes nothing before its await and reads nothing it kept from before  *)
(* it, so it is one step, taken when the load settles, with the file drawn *)
(* at that moment.  Choosing no file returns at once and is left out.      *)
(***************************************************************************)
\* the image files and video frames of the page
PageImage == Image(PageW, PageH)

\* a file chosen in fileA or fileB, or a frame asked of the video: it loads
\* as PageImage or fails to load
ImageFiles == {[ok |-> TRUE, image |-> PageImage], [ok |-> FALSE, image |-> NoImage]}

\* the crop boxes tried on an image: all of it, and all but a border of 1
CropRects(img) ==
  {[x |-> 0, y |-> 0, width |-> img.cols, height |-> img.rows],
   [x |-> 1, y |-> 1, width |-> img.cols - 2, height |-> img.rows - 2]}

\* descriptor rows found on a crop of Image A / of Image B
PageSourceRows == {<< >>, [i \in 1..MaxSrcRows |-> 0]}

PageTargetRows == {<< >>, << 0, 7 >>}

\* the ratio of the page: Number(ratio.value) || 0.75 with the default value
PageRatio == FDivInt(3, 4)

\* the library's answers to a detectORB call of the page on a w x h crop
PageDetectLibs(rows, w, h) ==
  {[throwAt |-> throwAt] @@ Features(IF throwAt = "none" THEN rows ELSE << >>, w, h) :
     throwAt \in {"none", "detectAndCompute"}}

\* the detector options of the page's fields: the defaults, which are the
\* values matchToTarget's own detector is made with, or nfeatures = 1
ORBOptions == {"defaults", "nfeatures = 1"}

\* what the library finds under these options where it finds `lib` under
\* the defaults: with nfeatures = 1 only the strongest keypoint, taken to
\* be the last one, and its descriptor row
FeaturesUnder(opts, lib) ==
  IF opts = "defaults" \/ Len(lib.kpVec) <= 1 THEN lib
  ELSE [lib EXCEPT !.kpVec = << lib.kpVec[Len(lib.kpVec)] >>,
                   !.des = [rows |-> 1, cols |-> lib.des.cols,
                            data |-> << lib.des.data[Len(lib.des.data)] >>]]

\* a features.json exported from a detection on the whole of PageImage
OrbDoc ==
  exportJSON(detectORB(PageImage,
                       [throwAt |-> "none"]
                         @@ Features([i \in 1..MaxSrcRows |-> 0], PageW, PageH)).value)

\* the files chosen in fileJSON: OrbDoc, the same features under another
\* type, and a text that is no JSON
JSONFiles ==
  {[ok |-> TRUE, doc |-> OrbDoc],
   [ok |-> TRUE, doc |-> [OrbDoc EXCEPT !.type = "SIFT"]],
   [ok |-> FALSE, doc |-> Null]}

\* the library's answers to the matchToTarget call of a Match click on a
\* w x h crop with the descriptor rows `rows`, before findHomography
PageMatchLibs(rows, w, h) ==
  {[throwAt |-> o[1], emptyTrain |-> o[2], uninit |-> 0,
    ransac |-> CHOOSE r \in RansacOutcomes(0) : TRUE] @@ Features(rows, w, h) :
     o \in {<< "knnMatch", "throws" >>, << "none", "throws" >>}
              \cup IF rows = << >> THEN {<< "none", "empty" >>} ELSE {}}

\* mod.matchToTarget(source, target, {ratio}) of a Match click: the call
\* under `lib`, and under each answer of findHomography when it is reached
PageMatch(self, source, lib) ==
  LET first == matchToTarget(self, source, Image(PageW, PageH), [ratio |-> PageRatio], lib)
  IN IF first.thrown \/ Len(first.value.matches) < minGood
     THEN {first}
     ELSE {matchToTarget(self, source, Image(PageW, PageH), [ratio |-> PageRatio],
                         [lib EXCEPT !.ransac = r]) :
             r \in RansacOutcomes(Len(first.value.matches))}

\* the record of a handler that has run
Report(handler, outcome, more) == [handler |-> handler, outcome |-> outcome] @@ more

SpecInit ==
  /\ AppIdle
  /\ ModIdle
  /\ CodecIdle
  /\ NormIdle

\* an onCvReady that sets the flag and creates no module
OnCvReadyWithoutModule ==
  /\ ~cvReady
  /\ cvReady' = TRUE
  /\ buttons' = refreshButtons(TRUE, imgAReady, imgBReady, detectResult, loadedJSON)
  /\ last' = Report("cv-ready", "ok", [leaked |-> {}])
  /\ UNCHANGED << mod, imgAReady, imgBReady, detectResult, loadedJSON, imgA, imgB,
                  canvasA, pending, heap, call, video, codecVars, normVars >>

\* onCvReady(): the module is created once
OnCvReady ==
  /\ ~cvReady
  /\ mod = Undefined
  /\ mod' = NewORBModule
  /\ cvReady' = TRUE
  /\ buttons' = refreshButtons(TRUE, imgAReady, imgBReady, detectResult, loadedJSON)
  /\ last' = Report("cv-ready", "ok", [leaked |-> {}])
  /\ UNCHANGED << imgAReady, imgBReady, detectResult, loadedJSON, imgA, imgB, canvasA,
                  pending, heap, call, video, codecVars, normVars >>

\* a fileA handler that keeps the detection result of the image before
FileAChangeKeepsResult ==
  /\ \E f \in ImageFiles :
       /\ imgA' = f.image
       /\ imgAReady' = f.ok
       /\ canvasA' = IF f.ok THEN HiddenCanvas ELSE canvasA
       /\ last' = Report("fileA", IF f.ok THEN "ok" ELSE "failed", [leaked |-> {}])
  /\ buttons' = refreshButtons(cvReady, imgAReady', imgBReady, detectResult, loadedJSON)
  /\ UNCHANGED << cvReady, imgBReady, detectResult, loadedJSON, imgB, pending,
                  modVars, video, codecVars, normVars >>

\* change of fileA: loadImg(f, imgA, cropBox) has settled
FileAChange ==
  /\ \E f \in ImageFiles :
       /\ imgA' = f.image
       /\ imgAReady' = f.ok
       /\ detectResult' = IF f.ok THEN Null ELSE detectResult
       /\ canvasA' = IF f.ok THEN HiddenCanvas ELSE canvasA
       /\ last' = Report("fileA", IF f.ok THEN "ok" ELSE "failed", [leaked |-> {}])
  /\ buttons' = refreshButtons(cvReady, imgAReady', imgBReady, detectResult', loadedJSON)
  /\ UNCHANGED << cvReady, imgBReady, loadedJSON, imgB, pending,
                  modVars, video, codecVars, normVars >>

\* change of fileB: loadImg(f, imgB, cropBoxB) has settled
FileBChange ==
  /\ \E f \in ImageFiles :
       /\ imgB' = f.image
       /\ imgBReady' = f.ok
       /\ last' = Report("fileB", IF f.ok THEN "ok" ELSE "failed", [leaked |-> {}])
  /\ buttons' = refreshButtons(cvReady, imgAReady, imgBReady', detectResult, loadedJSON)
  /\ UNCHANGED << cvReady, imgAReady, detectResult, loadedJSON, imgA, canvasA, pending,
                  modVars, video, codecVars, normVars >>

\* change of fileJSON: f.text() has settled; loadedJSON = JSON.parse(text),
\* or null when the text does not parse
FileJSONChange ==
  /\ \E f \in JSONFiles :
       /\ loadedJSON' = f.doc
       /\ last' = Report("fileJSON", IF f.ok THEN "ok" ELSE "failed", [leaked |-> {}])
  /\ buttons' = refreshButtons(cvReady, imgAReady, imgBReady, detectResult, loadedJSON')
  /\ UNCHANGED << cvReady, imgAReady, imgBReady, detectResult, imgA, imgB, canvasA,
                  pending, modVars, video, codecVars, normVars >>

\* click on Extract frame: videoExtractor.extractFrame has settled; on
\* success the frame becomes the source of imgA and imgA.onload waits for
\* it, on failure the catch block runs
ExtractFrameClick ==
  /\ \E f \in ImageFiles :
       IF f.ok
       THEN /\ pending' = pending \cup {[input |-> "frameImage", file |-> f]}
            /\ last' = Report("extractFrame", "ok", [leaked |-> {}])
            /\ UNCHANGED << imgAReady, buttons >>
       ELSE /\ imgAReady' = FALSE
            /\ buttons' = refreshButtons(cvReady, FALSE, imgBReady, detectResult, loadedJSON)
            /\ last' = Report("extractFrame", "failed", [leaked |-> {}])
            /\ UNCHANGED pending
  /\ UNCHANGED << cvReady, imgBReady, detectResult, loadedJSON, imgA, imgB, canvasA,
                  modVars, video, codecVars, normVars >>

\* imgA.onload after a frame extraction
FrameImageLoaded ==
  /\ \E p \in pending :
       /\ p.input = "frameImage"
       /\ pending' = pending \ {p}
       /\ imgA' = p.file.image
  /\ imgAReady' = TRUE
  /\ detectResult' = Null
  /\ canvasA' = HiddenCanvas
  /\ buttons' = refreshButtons(cvReady, TRUE, imgBReady, Null, loadedJSON)
  /\ last' = Report("frameImage", "ok", [leaked |-> {}])
  /\ UNCHANGED << cvReady, imgBReady, loadedJSON, imgB, modVars, video, codecVars, normVars >>

\* the Mats the handlers create themselves
HandlerMats ==
  {"Detect.src", "Detect.fullMat", "Match.target", "Match.A", "Match.B",
   "mod._lastCanvasMat"}

\* a cv.Mat held in a field
SomeMat == [kind |-> "Mat"]

\* a Detect handler that does not wait for OpenCV
DetectClickBeforeCvReady ==
  /\ imgAReady
  /\ \E cropRect \in CropRects(imgA), rows \in PageSourceRows :
       \E src \in {cropImage(imgA, cropRect)} :
         \E lib \in PageDetectLibs(rows, src.cols, src.rows) :
           \E r \in {detectORB(src, lib)} :
             \E draw \in IF r.thrown THEN {"none"} ELSE {"ok", "drawKeypoints"} :
               /\ detectResult' = IF draw = "ok" THEN r.value ELSE Null
               /\ canvasA' = IF draw = "ok"
                             THEN drawKeypoints(imgA, offsetKeypoints(r.value.keypoints,
                                                                     cropRect))
                             ELSE canvasA
               /\ last' = Report("Detect", IF draw = "ok" THEN "ok" ELSE "failed",
                                 [cropRect |-> cropRect,
                                  leaked |-> r.leaked
                                    \cup IF draw = "drawKeypoints"
                                         THEN {"Detect.fullMat", "drawKeypoints.out"}
                                         ELSE {}])
  /\ buttons' = refreshButtons(cvReady, imgAReady, imgBReady, detectResult', loadedJSON)
  /\ UNCHANGED << cvReady, imgAReady, imgBReady, loadedJSON, imgA, imgB, pending,
                  modVars, video, codecVars, normVars >>

\* click on Detect ORB; src is deleted in the finally block, fullMat only
\* after drawKeypoints has returned
DetectClick ==
  /\ ~buttons.detect
  /\ cvReady /\ imgAReady
  /\ \E cropRect \in CropRects(imgA), rows \in PageSourceRows :
       \E src \in {cropImage(imgA, cropRect)} :
         \E lib \in PageDetectLibs(rows, src.cols, src.rows) :
           \E r \in {detectORB(src, lib)} :
             \E draw \in IF r.thrown THEN {"none"} ELSE {"ok", "drawKeypoints"} :
               /\ detectResult' = IF draw = "ok" THEN r.value ELSE Null
               /\ canvasA' = IF draw = "ok"
                             THEN drawKeypoints(imgA, offsetKeypoints(r.value.keypoints,
                                                                     cropRect))
                             ELSE canvasA
               /\ last' = Report("Detect", IF draw = "ok" THEN "ok" ELSE "failed",
                                 [cropRect |-> cropRect,
                                  leaked |-> r.leaked
                                    \cup IF draw = "drawKeypoints"
                                         THEN {"Detect.fullMat", "drawKeypoints.out"}
                                         ELSE {}])
  /\ buttons' = refreshButtons(cvReady, imgAReady, imgBReady, detectResult', loadedJSON)
  /\ UNCHANGED << cvReady, imgAReady, imgBReady, loadedJSON, imgA, imgB, pending,
                  modVars, video, codecVars, normVars >>

\* click on Download JSON
DownloadClick ==
  /\ ~buttons.download
  /\ ~Falsy(detectResult)
  /\ last' = Report("Download", "ok",
                    [exported |-> exportJSON(detectResult), leaked |-> {}])
  /\ UNCHANGED << cvReady, imgAReady, imgBReady, detectResult, loadedJSON, imgA, imgB,
                  buttons, canvasA, pending, modVars, video, codecVars, normVars >>

\* the Match handler from the matchToTarget call on: `res` is the outcome
\* of the call on `source`, rB the detection on the target, `draw` the
\* statement of the drawing at which the library throws.  target is deleted
\* in the finally block; A, B and the canvas Mat of drawMatches only at the
\* end of the try block.
MatchFrom(source, res, rB, cropRectB, draw) ==
  LET made == [sourceJson |-> source, result |-> res, cropRectB |-> cropRectB,
               detectResultB |-> rB.value]
      live == rB.leaked \cup res.leaked
  IN
  IF res.thrown
  THEN /\ last' = Report("Match", "failed", [match |-> made, leaked |-> live])
       /\ mod' = mod
  ELSE IF ~HasField(source, "keypoints")
  THEN /\ last' = Report("Match", "no keypoints", [match |-> made, leaked |-> live])
       /\ mod' = res.self
  ELSE IF draw = "matFromImageEl"
  THEN /\ last' = Report("Match", "failed", [match |-> made, leaked |-> live])
       /\ mod' = res.self
  ELSE IF draw = "drawMatches"
  THEN /\ last' = Report("Match", "failed",
                         [match |-> made,
                          leaked |-> live \cup {"Match.A", "Match.B", "mod._lastCanvasMat"}])
       /\ mod' = [res.self EXCEPT !._lastCanvasMat = SomeMat]
  ELSE /\ last' = Report("Match", "drawn",
                         [match |-> made, leaked |-> live,
                          drawn |-> drawMatches(imgA, imgB, source.keypoints,
                                                offsetKeypoints(rB.value.keypoints, cropRectB),
                                                res.value)])
       /\ mod' = [res.self EXCEPT !._lastCanvasMat = Null]

\* a Match handler that takes the detection result before the loaded file
MatchClickPrefersDetection ==
  /\ ~buttons.match
  /\ cvReady /\ imgBReady
  /\ ~Falsy(loadedJSON) \/ ~Falsy(detectResult)
  /\ \E cropRectB \in CropRects(imgB), rows \in PageTargetRows :
       \E target \in {cropImage(imgB, cropRectB)},
          opts \in IF Len(rows) > 1 THEN ORBOptions ELSE {"defaults"} :
         \E libB \in {FeaturesUnder(opts, l) :
                        l \in PageDetectLibs(rows, target.cols, target.rows)} :
           \E rB \in {detectORB(target, libB)} :
             IF rB.thrown
             THEN \* thrown outside the try block: the handler stops there
                  /\ last' = Report("Match", "uncaught",
                                    [leaked |-> rB.leaked \cup {"Match.target"}])
                  /\ UNCHANGED << mod, buttons >>
             ELSE \E source \in {IF ~Falsy(detectResult) THEN exportJSON(detectResult)
                                 ELSE loadedJSON},
                     lib \in PageMatchLibs(rows, target.cols, target.rows) :
                    \E res \in PageMatch(mod, source, lib) :
                      \E draw \in IF res.thrown THEN {"none"}
                                  ELSE {"ok", "drawMatches"}
                                         \cup IF imgA = NoImage THEN {"matFromImageEl"}
                                              ELSE {} :
                        /\ MatchFrom(source, res, rB, cropRectB, draw)
                        /\ buttons' = refreshButtons(cvReady, imgAReady, imgBReady,
                                                     detectResult, loadedJSON)
  /\ UNCHANGED << cvReady, imgAReady, imgBReady, detectResult, loadedJSON, imgA, imgB,
                  canvasA, pending, heap, call, video, codecVars, normVars >>

\* click on Match: the handler detects on the target with the options of
\* the page's fields, matchToTarget detects on it again with cv.ORB(1200)
MatchClick ==
  /\ ~buttons.match
  /\ cvReady /\ imgBReady
  /\ ~Falsy(loadedJSON) \/ ~Falsy(detectResult)
  /\ \E cropRectB \in CropRects(imgB), rows \in PageTargetRows :
       \E target \in {cropImage(imgB, cropRectB)},
          opts \in IF Len(rows) > 1 THEN ORBOptions ELSE {"defaults"} :
         \E libB \in {FeaturesUnder(opts, l) :
                        l \in PageDetectLibs(rows, target.cols, target.rows)} :
           \E rB \in {detectORB(target, libB)} :
             IF rB.thrown
             THEN \* thrown outside the try block: the handler stops there
                  /\ last' = Report("Match", "uncaught",
                                    [leaked |-> rB.leaked \cup {"Match.target"}])
                  /\ UNCHANGED << mod, buttons >>
             ELSE \E source \in {IF ~Falsy(loadedJSON) THEN loadedJSON
                                 ELSE exportJSON(detectResult)},
                     lib \in PageMatchLibs(rows, target.cols, target.rows) :
                    \E res \in PageMatch(mod, source, lib) :
                      \E draw \in IF res.thrown THEN {"none"}
                                  ELSE {"ok", "drawMatches"}
                                         \cup IF imgA = NoImage THEN {"matFromImageEl"}
                                              ELSE {} :
                        /\ MatchFrom(source, res, rB, cropRectB, draw)
                        /\ buttons' = refreshButtons(cvReady, imgAReady, imgBReady,
                                                     detectResult, loadedJSON)
  /\ UNCHANGED << cvReady, imgAReady, imgBReady, detectResult, loadedJSON, imgA, imgB,
                  canvasA, pending, heap, call, video, codecVars, normVars >>

Next ==
  \/ OnCvReady
  \/ FileAChange
  \/ FileBChange
  \/ FileJSONChange
  \/ ExtractFrameClick
  \/ FrameImageLoaded
  \/ DetectClick
  \/ DownloadClick
  \/ MatchClick

Spec == SpecInit /\ [][Next]_vars

(***************************************************************************)
(* Claims on the page.                                                     *)
(***************************************************************************)
\* the Match handler has called mod.matchToTarget
MatchCalled == last.handler = "Match" /\ last.outcome # "uncaught"

\* C3: after a Match click on the features just detected on a crop of
\* Image A, every line drawn starts, on Image A, at the pixel at which the
\* Detect handler drew that keypoint
DrawnAtDetected ==
  (MatchCalled /\ last.outcome = "drawn" /\ Falsy(loadedJSON) /\ imgAReady)
    => \A k \in 1..Len(last.drawn) :
         last.drawn[k].a
           = canvasA[last.match.result.value.matches[last.drawn[k].match].queryIdx + 1]

\* one side of the match made by the last Match click has no descriptor row
EmptySide ==
  \/ Falsy(last.match.sourceJson.descriptors)
  \/ last.match.sourceJson.descriptors.rows = 0
  \/ Falsy(last.match.detectResultB.descriptors)

\* C6: when the source or the target of a Match click has no descriptor
\* row, matchToTarget returns an empty match list and no homography, and
\* the handler does not fail
EmptyDescriptorsShortCircuit ==
  (MatchCalled /\ EmptySide)
    => /\ ~last.match.result.thrown
       /\ last.match.result.value.matches = << >>
       /\ last.match.result.value.homography = Null
       /\ last.outcome # "failed"

\* C8: a document whose type is not "ORB" is never held in loadedJSON and
\* never passed to matchToTarget
NonORBRejected ==
  /\ Falsy(loadedJSON) \/ loadedJSON.type = "ORB"
  /\ MatchCalled => last.match.sourceJson.type = "ORB"

\* C9: a handler that fails leaves detectResult, loadedJSON, imgAReady and
\* imgBReady as they were, and no failure escapes its handler unreported
FailureLeavesState ==
  [][/\ last'.outcome = "failed"
          => UNCHANGED << detectResult, loadedJSON, imgAReady, imgBReady >>
     /\ last'.outcome # "uncaught"]_vars

\* C11: when a Detect or Match click has finished, on any path, none of
\* the Mats the handler created (src, fullMat, target, A, B, the module's
\* last canvas Mat) is still alive
HandlerMatsReleased ==
  last.handler \in {"Detect", "Match"} =>
    /\ last.leaked \cap HandlerMats = {}
    /\ mod._lastCanvasMat = Null

(***************************************************************************)
(* Further claims on the module.                                           *)
(***************************************************************************)
\* C12: whenever matchToTarget returns a homography, inlierMask has one
\* boolean per returned match, entry i being the flag findHomography gave
\* to point pair i (made of match i), and numInliers is the number of true
\* entries
InlierMaskAligned ==
  (/\ call.fn = "matchToTarget"
   /\ ~call.result.thrown
   /\ call.result.value.homography # Null) =>
    \A res \in {call.result.value} :
      /\ res.inlierMask # Null
      /\ Len(res.inlierMask.items) = Len(res.matches)
      /\ \A i \in 1..Len(res.matches) :
           res.inlierMask.items[i] = (call.lib.ransac.mask[i] # 0)
      /\ res.numInliers
           = Cardinality({i \in 1..Len(res.inlierMask.items) : res.inlierMask.items[i]})

\* a call returned a homography with inliers and an outlier
InlierMaskWitness ==
  /\ call.fn = "matchToTarget"
  /\ ~call.result.thrown
  /\ call.result.value.homography # Null
  /\ \E i, j \in 1..Len(call.result.value.matches) :
       /\ call.result.value.inlierMask.items[i]
       /\ ~call.result.value.inlierMask.items[j]

\* the pixel position of a keypoint
PixelOf(kp) == << kp.x, kp.y >>

\* C13: a detection result with descriptors has one descriptor row per
\* keypoint, keypoint i and row i being the i-th keypoint and the i-th row
\* the library found; exportJSON and importJSON keep the number and the
\* order of the keypoints and of the rows
PairingKept ==
  /\ (call.fn = "detectORB" /\ ~call.result.thrown) =>
       \A r \in {call.result.value} :
         /\ Len(r.keypoints) = Len(call.lib.kpVec)
         /\ \A i \in 1..Len(r.keypoints) : PixelOf(r.keypoints[i]) = PixelOf(call.lib.kpVec[i])
         /\ ~Falsy(r.descriptors) =>
              /\ r.descriptors.rows = Len(r.keypoints)
              /\ \A i \in 1..r.descriptors.rows :
                   DescRow(r.descriptors, i - 1) = DescRow(call.lib.des, i - 1)
  /\ call.fn = "exportJSON" =>
       \A r \in {call.detectResult}, doc \in {call.result.value} :
         /\ Len(doc.keypoints) = Len(r.keypoints)
         /\ \A i \in 1..Len(r.keypoints) :
              doc.keypoints[i] = normalizeKeypoint(r.keypoints[i], r.width, r.height)
         /\ Falsy(doc.descriptors) <=> Falsy(r.descriptors)
         /\ ~Falsy(r.descriptors) =>
              /\ doc.descriptors.rows = Len(doc.keypoints)
              /\ doc.descriptors.cols = r.descriptors.cols
              /\ srcU8Of(doc.descriptors) = [ok |-> TRUE, value |-> r.descriptors.data]
  /\ (call.fn = "importJSON" /\ ~call.result.thrown) =>
       \A doc \in {call.obj}, r \in {call.result.value} :
         /\ r.keypoints = doc.keypoints
         /\ Falsy(r.descriptors) <=> Falsy(doc.descriptors)
         /\ ~Falsy(doc.descriptors) =>
              /\ r.descriptors.rows = doc.descriptors.rows
              /\ r.descriptors.cols = doc.descriptors.cols
              /\ r.descriptors.rows = Len(r.keypoints)
              /\ srcU8Of(doc.descriptors) = [ok |-> TRUE, value |-> r.descriptors.data]

\* a detection of two keypoints at different pixels with different
\* descriptor rows was returned
PairingWitness ==
  /\ call.fn = "detectORB"
  /\ ~call.result.thrown
  /\ ~Falsy(call.result.value.descriptors)
  /\ call.result.value.descriptors.rows = 2
  /\ PixelOf(call.result.value.keypoints[1]) # PixelOf(call.result.value.keypoints[2])
  /\ DescRow(call.result.value.descriptors, 0) # DescRow(call.result.value.descriptors, 1)

\* C14: the matches matchToTarget returns are in ascending order of
\* distance
MatchesAscending ==
  (call.fn = "matchToTarget" /\ ~call.result.thrown) =>
    \A matches \in {call.result.value.matches} :
      \A i, j \in 1..Len(matches) :
        i < j => matches[i].distance <= matches[j].distance

\* the ratios the last call is compared with
MoreRatios == Ratios \cup {FDivInt(1, 4), FInt(1)}

\* the last matchToTarget call made again on a fresh module with the ratio
\* `ratio`, the library answering as before but throwing nowhere
CallAgainWith(ratio) ==
  matchToTarget(NewORBModule, call.sourceJson, call.targetMat, [ratio |-> ratio],
                [call.lib EXCEPT !.throwAt = "none"])

\* the matches of a sequence, as a set
MatchSet(matches) == {matches[i] : i \in 1..Len(matches)}

\* C15: every match a matchToTarget call keeps is also kept by the same
\* call with any ratio that is not smaller, which therefore keeps at least
\* as many (a call that stops at the source keypoints shows no matches)
RatioMonotone ==
  (call.fn = "matchToTarget" /\ ~call.result.thrown) =>
    \A ratio \in MoreRatios :
      ~FLess(ratio, call.opts.ratio) =>
        \A other \in {CallAgainWith(ratio)} :
          IF other.thrown THEN other.at = "srcPts"
          ELSE /\ MatchSet(call.result.value.matches) \subseteq MatchSet(other.value.matches)
               /\ Len(call.result.value.matches) <= Len(other.value.matches)

\* a call with ratio 1/2 kept a match, and fewer than it keeps with 3/4
RatioMonotoneWitness ==
  /\ call.fn = "matchToTarget"
  /\ ~call.result.thrown
  /\ call.opts.ratio = FDivInt(1, 2)
  /\ call.result.value.matches # << >>
  /\ \E other \in {CallAgainWith(FDivInt(3, 4))} :
       /\ ~other.thrown
       /\ Len(call.result.value.matches) < Len(other.value.matches)

\* a pixel coordinate c lies inside an image side of `size` pixels
Inside(c, size) == 0 <= c /\ c < size

\* a normalised coordinate is in [0, 1]
InUnit(f) == f = FZero \/ (HasField(f, "e") /\ ~FLess(FInt(1), f))

\* C16: the document exportJSON returns has version 1, type "ORB", the
\* detection's width and height as imageSize, one keypoint per detected
\* keypoint, in [0,1] x [0,1] when the keypoint is inside the image, and
\* descriptors null if the detection has none, else rows, cols (copied)
\* and a base64 text
ExportShape ==
  call.fn = "exportJSON" =>
    \A r \in {call.detectResult}, doc \in {call.result.value} :
      /\ ~call.result.thrown
      /\ DOMAIN doc = {"version", "type", "imageSize", "keypoints", "descriptors"}
      /\ doc.version = 1
      /\ doc.type = "ORB"
      /\ doc.imageSize = [width |-> r.width, height |-> r.height]
      /\ Len(doc.keypoints) = Len(r.keypoints)
      /\ \A i \in 1..Len(r.keypoints) :
           (Inside(r.keypoints[i].x, r.width) /\ Inside(r.keypoints[i].y, r.height))
             => (InUnit(doc.keypoints[i].x) /\ InUnit(doc.keypoints[i].y))
      /\ Falsy(r.descriptors) => doc.descriptors = Null
      /\ ~Falsy(r.descriptors) =>
           /\ DOMAIN doc.descriptors = {"rows", "cols", "data_b64"}
           /\ doc.descriptors.rows = r.descriptors.rows
           /\ doc.descriptors.cols = r.descriptors.cols
           /\ \A k \in 1..Len(doc.descriptors.data_b64) :
                doc.descriptors.data_b64[k] \in B64Chars \cup {"="}
           /\ Len(doc.descriptors.data_b64) % 4 = 0

\* a detection with descriptors and a keypoint away from the origin was
\* exported
ExportShapeWitness ==
  /\ call.fn = "exportJSON"
  /\ ~Falsy(call.detectResult.descriptors)
  /\ \E i \in 1..Len(call.detectResult.keypoints) :
       /\ Inside(call.detectResult.keypoints[i].x, call.detectResult.width)
       /\ Inside(call.detectResult.keypoints[i].y, call.detectResult.height)
       /\ call.detectResult.keypoints[i].x >= 2
       /\ call.result.value.keypoints[i].x # FZero

\* C17: exportJSON fails on a detection result whose width or height is
\* zero or negative, and returns no keypoints
BadDimensionsRejected ==
  (/\ call.fn = "exportJSON"
   /\ (call.detectResult.width <= 0 \/ call.detectResult.height <= 0))
    => call.result.thrown

\* C18: _b64ToU8 fails, and returns no bytes, on every text whose length
\* is not a multiple of 4 or that has a character outside the base64
\* alphabet (and the padding character)
CorruptRejected ==
  (/\ codecPc = "decodedCorrupted"
   /\ \/ Len(codecB64.value) % 4 # 0
      \/ \E i \in 1..Len(codecB64.value) : codecB64.value[i] \notin B64Chars \cup {"="})
    => ~codecOut.ok

\* C19: importJSON of the document exportJSON makes of a detection result
\* r has the width, the height, the keypoints (in order, at the same
\* coordinates) and the descriptors of r
ImportReversesExport ==
  (call.fn = "importJSON" /\ ~call.result.thrown) =>
    \A r \in SourceResults :
      call.obj = exportJSON(r) =>
        \A back \in {call.result.value} :
          /\ back.width = r.width
          /\ back.height = r.height
          /\ back.descriptors = r.descriptors
          /\ Len(back.keypoints) = Len(r.keypoints)
          /\ \A i \in 1..Len(r.keypoints) :
               /\ KeypointRest(back.keypoints[i]) = KeypointRest(r.keypoints[i])
               /\ back.keypoints[i].x = FInt(r.keypoints[i].x)
               /\ back.keypoints[i].y = FInt(r.keypoints[i].y)

(***************************************************************************)
(* Calls in sequence on one ORBModule instance.                            *)
(***************************************************************************)
\* the number of calls made on the instance so far
CallsMade == IF call = NoCall THEN 0 ELSE call.n

\* the documents of the call sequences: a detection of two rows, one of
\* MaxSrcRows equal rows, and no document
CallsDocs ==
  {exportJSON(detectORB(Image(ImageW, ImageH),
                        [throwAt |-> "none"] @@ Features(rows, ImageW, ImageH)).value) :
     rows \in {<< 0, 7 >>, [i \in 1..MaxSrcRows |-> 0]}}
    \cup {Null}

\* the library's answers in the call sequences
CallsLibs ==
  {MatchLib("none", "throws", rows) : rows \in SeqsUpTo(DescBytes, MaxTgtRows)}
    \cup {MatchLib("knnMatch", "throws", << 0 >>)}

CallsInit == ModuleInit

NextDetectORB ==
  /\ CallsMade < MaxCalls
  /\ \E rows \in SeqsUpTo(DescBytes, MaxTgtRows), throwAt \in {"none", "cvtColor"} :
       LET srcRGBA == Image(ImageW, ImageH)
           lib == [throwAt |-> throwAt] @@ Features(rows, ImageW, ImageH)
           result == detectORB(srcRGBA, lib)
       IN /\ call' = [fn |-> "detectORB", n |-> CallsMade + 1, self |-> mod,
                      srcRGBA |-> srcRGBA, lib |-> lib, result |-> result]
          /\ heap' = heap \cup result.leaked
  /\ UNCHANGED << mod, codecVars, normVars, appVars >>

NextMatchToTarget ==
  /\ CallsMade < MaxCalls
  /\ \E sourceJson \in CallsDocs, lib \in CallsLibs :
       \E result \in {matchToTarget(mod, sourceJson, Image(ImageW, ImageH),
                                    [ratio |-> FDivInt(3, 4)], lib)} :
         /\ call' = [fn |-> "matchToTarget", n |-> CallsMade + 1, self |-> mod,
                     sourceJson |-> sourceJson, targetMat |-> Image(ImageW, ImageH),
                     opts |-> [ratio |-> FDivInt(3, 4)], lib |-> lib,
                     result |-> result]
         /\ mod' = result.self
         /\ heap' = heap \cup result.leaked
  /\ UNCHANGED << codecVars, normVars, appVars >>

CallsNext == NextDetectORB \/ NextMatchToTarget

SpecCalls == CallsInit /\ [][CallsNext]_vars

\* the fields of an ORBModule instance
ORBModuleFields == DOMAIN NewORBModule

InliersDrawnGreen ==
  (last.handler = "Match" /\ last.outcome = "drawn") =>
    \A res \in {last.match.result.value} :
      /\ \A k \in 1..Len(last.drawn) :
           last.drawn[k].inlier
             <=> /\ res.homography # Null
                 /\ res.inlierMask.items[last.drawn[k].match]
      /\ Cardinality({k \in 1..Len(last.drawn) : last.drawn[k].inlier}) = res.numInliers

\* C22: once a handler has finished, Detect is enabled iff cvReady and
\* imgAReady, Download iff detectResult is set and has descriptors, Match
\* iff cvReady and imgBReady and loadedJSON or detectResult is set
ButtonsConsistent ==
  last.handler # "none" =>
    /\ ~buttons.detect <=> (cvReady /\ imgAReady)
    /\ ~buttons.download <=> (detectResult # Null /\ detectResult.descriptors # Null)
    /\ ~buttons.match <=> (cvReady /\ imgBReady /\ (loadedJSON # Null \/ detectResult # Null))

\* a detection that found no descriptor has finished: Detect and Match are
\* enabled, Download is not
ButtonsConsistentWitness ==
  /\ last.handler = "Detect"
  /\ last.outcome = "ok"
  /\ detectResult # Null
  /\ detectResult.descriptors = Null
  /\ imgBReady
  /\ buttons = [detect |-> FALSE, download |-> TRUE, match |-> FALSE]

\* C23: after a Match click that drew its matches, the target index of
\* every match refers to the keypoints the handler passed to drawMatches:
\* the keypoint drawn on Image B is the one matchToTarget matched, moved by
\* the crop's offset
TrainIdxConsistent ==
  (last.handler = "Match" /\ last.outcome = "drawn") =>
    \A m \in {last.match} :
      \A i \in 1..Len(m.result.value.matches) :
        \A t \in {m.result.value.matches[i].trainIdx + 1} :
          /\ t <= Len(m.detectResultB.keypoints)
          /\ m.detectResultB.keypoints[t] = m.result.self._lastDetB.keypoints[t]
          /\ \E k \in 1..Len(last.drawn) :
               /\ last.drawn[k].match = i
               /\ last.drawn[k].b
                    = Point(m.result.self._lastDetB.keypoints[t].x + m.cropRectB.x + imgA.cols,
                            m.result.self._lastDetB.keypoints[t].y + m.cropRectB.y)

\* C24: a successful load of a new Image A, from a file or from a video
\* frame, sets imgAReady, resets detectResult to null, disables Download
\* and leaves loadedJSON and imgBReady as they were
NewImageAResets ==
  [][(last'.handler \in {"fileA", "frameImage"} /\ last'.outcome = "ok") =>
       /\ imgAReady'
       /\ detectResult' = Null
       /\ buttons'.download
       /\ UNCHANGED << loadedJSON, imgBReady >>]_vars

\* a new Image A has loaded on a page that holds a feature file and an
\* Image B, and shows no keypoints of the image before
NewImageAWitness ==
  /\ last.handler \in {"fileA", "frameImage"}
  /\ last.outcome = "ok"
  /\ imgAReady /\ imgBReady
  /\ detectResult = Null
  /\ canvasA = HiddenCanvas
  /\ loadedJSON # Null
  /\ buttons.download /\ ~buttons.match

\* C25: a detection on Image A is computed only when cv-ready has run and
\* an Image A has loaded, a match only when cv-ready has run, an Image B
\* has loaded and a feature file or a detection result is held
OperationsOrdered ==
  [][/\ last'.handler = "Detect" =>
          /\ cvReady /\ mod # Undefined
          /\ imgAReady /\ imgA # NoImage
     /\ last'.handler = "Match" =>
          /\ cvReady /\ mod # Undefined
          /\ imgBReady /\ imgB # NoImage
          /\ loadedJSON # Null \/ detectResult # Null]_vars

\* a match has been computed on a detection result, with no feature file
OperationsOrderedWitness ==
  /\ last.handler = "Match"
  /\ last.outcome = "drawn"
  /\ loadedJSON = Null
  /\ detectResult # Null
  /\ cvReady /\ imgAReady /\ imgBReady

(***************************************************************************)
(* The fileA handler across its await: a file is chosen and handed to      *)
(* loadImg, and the rest of the handler runs when that promise settles.    *)
(* Another file can be chosen in between, and the promises settle in any   *)
(* order.                                                                  *)
(***************************************************************************)
\* the files handed to loadImg(f, imgA, cropBox) so far
LoadsA == {p \in pending : p.input = "fileA"}

\* change of fileA up to `await loadImg(f, imgA, cropBox)`: nothing of the
\* page's state is read or written before the await
FileAChosen ==
  /\ Cardinality(LoadsA) < MaxLoads
  /\ \E f \in ImageFiles :
       pending' = pending \cup {[input |-> "fileA", n |-> Cardinality(LoadsA) + 1,
                                 file |-> f, settled |-> FALSE,
                                 overlaps |-> \E p \in LoadsA : ~p.settled]}
  /\ UNCHANGED << cvReady, imgAReady, imgBReady, detectResult, loadedJSON, imgA, imgB,
                  buttons, canvasA, last, modVars, video, codecVars, normVars >>

\* the fileA handler after its await: the promise of one of the loads has
\* settled, resolved for a file that loads and rejected otherwise
FileASettled ==
  /\ \E p \in LoadsA :
       /\ ~p.settled
       /\ pending' = (pending \ {p}) \cup {[p EXCEPT !.settled = TRUE]}
       /\ imgA' = p.file.image
       /\ imgAReady' = p.file.ok
       /\ detectResult' = IF p.file.ok THEN Null ELSE detectResult
       /\ canvasA' = IF p.file.ok THEN HiddenCanvas ELSE canvasA
       /\ last' = Report("fileA", IF p.file.ok THEN "ok" ELSE "failed",
                         [leaked |-> {}, load |-> p.n])
  /\ buttons' = refreshButtons(cvReady, imgAReady', imgBReady, detectResult', loadedJSON)
  /\ UNCHANGED << cvReady, imgBReady, loadedJSON, imgB, modVars, video, codecVars, normVars >>

LoadsNext == OnCvReady \/ FileAChosen \/ FileASettled \/ DetectClick

SpecLoads == SpecInit /\ [][LoadsNext]_vars

\* C26: when a file was chosen in fileA while another was loading and
\* every load has settled, imgAReady tells whether the file chosen last
\* has loaded
LatestLoadDecides ==
  (/\ LoadsA # {}
   /\ \A p \in LoadsA : p.settled
   /\ \E p \in LoadsA : p.overlaps)
    => \A p \in LoadsA : p.n = Cardinality(LoadsA) => imgAReady = p.file.ok

(***************************************************************************)
(* video_frame_extractor.js: extractFrame and the events of its video      *)
(* element, with the Extract frame handler that awaits it.                 *)
(***************************************************************************)
\* change of fileVideo: the video element gets a source
FileVideoChange ==
  /\ video' = [video EXCEPT !.src = TRUE]
  /\ UNCHANGED << cvReady, imgAReady, imgBReady, detectResult, loadedJSON, imgA, imgB,
                  buttons, canvasA, pending, last, modVars, codecVars, normVars >>

\* the Extract frame handler after its await on the promise of call k,
\* which has settled as `settled`
ExtractFrameSettled(k, settled) ==
  IF settled = "resolved"
  THEN /\ pending' = pending \cup {[input |-> "frameImage",
                                    file |-> [ok |-> TRUE, image |-> PageImage]]}
       /\ last' = Report("extractFrame", "ok", [leaked |-> {}, call |-> k])
       /\ UNCHANGED << imgAReady, buttons >>
  ELSE /\ imgAReady' = FALSE
       /\ buttons' = refreshButtons(cvReady, FALSE, imgBReady, detectResult, loadedJSON)
       /\ last' = Report("extractFrame", "failed", [leaked |-> {}, call |-> k])
       /\ UNCHANGED pending

\* extractFrame(frameNumber, fps): without a source the promise is rejected
\* at once; otherwise currentTime is set, which starts a seek and ends the
\* one under way, and onseeked and onerror are replaced by the callbacks of
\* this call
ExtractFrame ==
  /\ Len(video.calls) < MaxFrameCalls
  /\ \E k \in {Len(video.calls) + 1} :
       IF ~video.src
       THEN /\ video' = [video EXCEPT !.calls = Append(@, "rejected: No video loaded")]
            /\ ExtractFrameSettled(k, "rejected")
       ELSE /\ video' = [video EXCEPT !.seeking = TRUE, !.onseeked = k, !.onerror = k,
                                      !.calls = Append(@, "pending")]
            /\ UNCHANGED << imgAReady, buttons, pending, last >>
  /\ UNCHANGED << cvReady, imgBReady, detectResult, loadedJSON, imgA, imgB, canvasA,
                  modVars, codecVars, normVars >>

\* the seeked event: video.onseeked draws the frame and resolves the
\* promise of the call that installed it
Seeked ==
  /\ video.seeking
  /\ \E k \in {video.onseeked} :
       IF video.calls[k] = "pending"
       THEN /\ video' = [video EXCEPT !.seeking = FALSE, !.calls[k] = "resolved"]
            /\ ExtractFrameSettled(k, "resolved")
       ELSE /\ video' = [video EXCEPT !.seeking = FALSE]
            /\ UNCHANGED << imgAReady, buttons, pending, last >>
  /\ UNCHANGED << cvReady, imgBReady, detectResult, loadedJSON, imgA, imgB, canvasA,
                  modVars, codecVars, normVars >>

\* the error event during a seek: video.onerror rejects the promise of the
\* call that installed it
VideoError ==
  /\ video.seeking
  /\ \E k \in {video.onerror} :
       IF video.calls[k] = "pending"
       THEN /\ video' = [video EXCEPT !.seeking = FALSE, !.calls[k] = "rejected"]
            /\ ExtractFrameSettled(k, "rejected")
       ELSE /\ video' = [video EXCEPT !.seeking = FALSE]
            /\ UNCHANGED << imgAReady, buttons, pending, last >>
  /\ UNCHANGED << cvReady, imgBReady, detectResult, loadedJSON, imgA, imgB, canvasA,
                  modVars, codecVars, normVars >>

VideoNext ==
  \/ OnCvReady
  \/ FileVideoChange
  \/ ExtractFrame
  \/ Seeked
  \/ VideoError
  \/ FrameImageLoaded

SpecVideo == SpecInit /\ [][VideoNext]_vars

\* C27: a call of extractFrame on a video without a source is rejected
\* with 'No video loaded' and starts no seek; on a video with a source
\* every call has resolved or rejected once the video has stopped seeking,
\* also when a call was made during the seek of another
FrameCallsSettle ==
  /\ ~video.src =>
       /\ ~video.seeking
       /\ \A k \in 1..Len(video.calls) : video.calls[k] = "rejected: No video loaded"
  /\ ~video.seeking =>
       \A k \in 1..Len(video.calls) : video.calls[k] # "pending"

\* C28: a Match click hands matchToTarget the loaded feature file when
\* there is one, whether or not a detection result exists, and the
\* exported detection result only when no feature file is loaded
LoadedFileFirst ==
  MatchCalled =>
    /\ loadedJSON # Null => last.match.sourceJson = loadedJSON
    /\ loadedJSON = Null => last.match.sourceJson = exportJSON(detectResult)

\* a match was made with a feature file loaded and another detection
\* result at hand
LoadedFileFirstWitness ==
  /\ MatchCalled
  /\ loadedJSON # Null
  /\ detectResult # Null
  /\ exportJSON(detectResult) # loadedJSON
  /\ last.match.sourceJson = loadedJSON

\* C29: cvReady implies that the module exists and a detection result
\* implies cvReady, so the module exists whenever Detect, Download or Match
\* has called one of its methods
ModuleBeforeUse ==
  /\ cvReady => mod # Undefined
  /\ detectResult # Null => cvReady
  /\ last.handler \in {"Detect", "Download", "Match"} => mod # Undefined

\* Download has exported a detection result through the module
ModuleBeforeUseWitness ==
  /\ last.handler = "Download"
  /\ detectResult # Null
  /\ cvReady
  /\ mod # Undefined

====
